---- MODULE Spec2Model ----
(***************************************************************************)
(* Repository index cache and synchronisation engine of the marketplace    *)
(* service: the chart cache (pkg/helm/cache.go), the index loader          *)
(* (pkg/helm/load.go), the repository operations SyncRepo, SyncAllRepos,   *)
(* DeleteRepo, GetRepoSyncStatus and the chart queries                     *)
(* (pkg/helm/charts.go).                                                   *)
(*                                                                         *)
(* Names are sequences of code points, so that strings.ToLower is a        *)
(* computation and two names that differ by letter case are two values.    *)
(***************************************************************************)
EXTENDS Integers, Sequences, FiniteSets, TLC

VARIABLES
    repoCR,            \* the repository catalog: metadata.name -> custom resource
    repoChartCache,    \* cachedChart.repoChartCache: repository name -> index entries
    repoAsyncTaskMap,  \* sync.Map: name as passed to SyncRepo -> status message
    env,               \* what each repository's server and the cluster API may answer
    req,               \* SyncRepo handlers: per request slot, position and return value
    task,              \* the goroutine spawned by the SyncRepo call of each slot
    btask,             \* SyncAllRepos: the goroutine of each repository of the batch
    errRepoList,       \* SyncAllRepos: the buffered error channel of the batch
    wg,                \* SyncAllRepos: the wait-group counter
    collector,         \* SyncAllRepos: the goroutine that waits, closes and logs
    resp,              \* the response returned by the last query or delete handler
    lastSet,           \* history: the entries last stored under each cache key
    tagc,              \* GetChartsWithOfficialTags: its position, the bearer token, counters
    calc,              \* the last application of a pure function: operation, input, output
    mu                 \* cachedChart.mu and the goroutines inside a cache operation

vars == <<repoCR, repoChartCache, repoAsyncTaskMap, env, req, task, btask,
          errRepoList, wg, collector, resp, lastSet, tagc, calc, mu>>

(***************************************************************************)
(* Bounds                                                                  *)
(***************************************************************************)
MaxSlots == 2
BatchRepos == 11

(***************************************************************************)
(* Program constants                                                       *)
(***************************************************************************)
ResponseBodyLimit == 100
ToMegabytes == 20
Success == 200
FileCreated == 201
ClientError == 400
ResourceNotFound == 404
ServerError == 500
StatusOK == 200
StatusCreated == 201
StatusAccepted == 202
StatusBadRequest == 400
StatusNotFound == 404
StatusInternalServerError == 500
BatchChanCap == 10
SyncChanCap == 1
syncInProgressMsg == "in_progress"
syncCompleteMsg == "complete"
syncFailedMsg == "failed"

(***************************************************************************)
(* Strings and maps                                                        *)
(***************************************************************************)
ToLower(s) ==
    [i \in DOMAIN s |-> IF s[i] >= 65 /\ s[i] <= 90 THEN s[i] + 32 ELSE s[i]]

EmptyMap == [k \in {} |-> 0]
Has(m, k) == k \in DOMAIN m
Put(m, k, v) == [x \in (DOMAIN m) \cup {k} |-> IF x = k THEN v ELSE m[x]]
Del(m, k) == [x \in (DOMAIN m) \ {k} |-> m[x]]

Shl(n, k) == n * (2 ^ k)

\* sort.Slice / sort.Sort on the short slices of an index, by descending
\* value of one field: insertion sort
RECURSIVE InsertSorted(_, _, _)
InsertSorted(field, s, x) ==
    IF s = << >> THEN << x >>
    ELSE IF x[field] > s[Len(s)][field]
         THEN Append(InsertSorted(field, SubSeq(s, 1, Len(s) - 1), x), s[Len(s)])
         ELSE Append(s, x)

RECURSIVE SortSlice(_, _)
SortSlice(field, s) ==
    IF s = << >> THEN << >>
    ELSE InsertSorted(field, SortSlice(field, SubSeq(s, 1, Len(s) - 1)), s[Len(s)])

(***************************************************************************)
(* Index documents and the responses of a repository server                *)
(***************************************************************************)
NoErr == "nil"
ErrTransport == "transport"
ErrBodySize == "response body exceeds the size limit"
ErrEmpty == ""
ErrNon200 == "received non-200 status code"
ErrYaml == "yaml"
ErrNoAPIVersion == "no API version specified"
ErrSecret == "secret lookup failed"
ErrPatch == "patch modification time failed"

ChartP == << 112 >>

Ver(n, v, c, kw) == [Name |-> n, Version |-> v, Created |-> c, Keywords |-> kw]

\* a nil map reads as an empty one
NilEntries == [isNil |-> TRUE, pkgs |-> EmptyMap]
Entries(pkgs) == [isNil |-> FALSE, pkgs |-> pkgs]

\* two versions whose semantic-version order is the reverse of their age
DocA ==
    [wellFormed |-> TRUE, APIVersion |-> "v1",
     Entries |-> Entries(Put(EmptyMap, ChartP,
                     << Ver(ChartP, 1, 2, {"a"}), Ver(ChartP, 2, 1, {"b"}) >>))]
DocB ==
    [wellFormed |-> TRUE, APIVersion |-> "v1",
     Entries |-> Entries(Put(EmptyMap, ChartP, << Ver(ChartP, 1, 1, {"a"}) >>))]
\* the chart of DocA and a second chart that has no version
ChartQ == << 113 >>
DocC == [DocA EXCEPT !.Entries = Entries(Put(DocA.Entries.pkgs, ChartQ, << >>))]
DocNoEntries == [wellFormed |-> TRUE, APIVersion |-> "v1", Entries |-> NilEntries]
DocNoVersion == [DocB EXCEPT !.APIVersion = ""]
DocMalformed == [wellFormed |-> FALSE, APIVersion |-> "", Entries |-> NilEntries]

maxSize == Shl(ResponseBodyLimit, ToMegabytes)

Response(net, status, chunks, doc) ==
    [net |-> net, status |-> status, chunks |-> chunks, doc |-> doc]

RespOK(doc) == Response(FALSE, StatusOK, << 1024 >>, doc)
RespFull == Response(FALSE, StatusOK, << maxSize - 1, 1 >>, DocB)
RespTransport == Response(TRUE, 0, << >>, DocMalformed)
RespTooBig == Response(FALSE, StatusOK, << maxSize, 1 >>, DocB)
RespNotFound == Response(FALSE, StatusNotFound, << 9 >>, DocMalformed)

GoodResponses == {RespOK(DocA), RespOK(DocB), RespOK(DocNoEntries), RespFull}
BadResponses ==
    {RespTransport, RespTooBig, RespNotFound, RespOK(DocMalformed), RespOK(DocNoVersion)}
Responses == GoodResponses \cup BadResponses
NoResp == Response(FALSE, 0, << >>, DocMalformed)

(***************************************************************************)
(* pkg/helm/load.go                                                        *)
(***************************************************************************)
\* a buffer that accepts every write, whatever its size
WriteNoLimit(l, n) ==
    [l |-> [l EXCEPT !.written = l.written + n], n |-> n, err |-> NoErr]

\* limitedBuffer.Write: l is the buffer [written, maxSize], n the length of p
Write(l, n) ==
    IF l.written + n > l.maxSize
    THEN [l |-> l, n |-> 0, err |-> ErrBodySize]
    ELSE [l |-> [l EXCEPT !.written = l.written + n], n |-> n, err |-> NoErr]

newLimitedBuffer(max) == [written |-> 0, maxSize |-> max]

\* io.Copy(limitedBuf, resp.Body): one Write per chunk read, stops at the first error
RECURSIVE Copy(_, _)
Copy(l, chunks) ==
    IF chunks = << >> THEN [l |-> l, err |-> NoErr]
    ELSE LET w == Write(l, Head(chunks))
         IN IF w.err # NoErr THEN [l |-> w.l, err |-> w.err]
            ELSE Copy(w.l, Tail(chunks))

LoadData(r) ==
    IF r.net THEN [ok |-> FALSE, err |-> ErrTransport]
    ELSE LET c == Copy(newLimitedBuffer(maxSize), r.chunks)
         IN IF c.err # NoErr THEN [ok |-> FALSE, err |-> ErrEmpty]
            ELSE IF r.status # StatusOK THEN [ok |-> FALSE, err |-> ErrNon200]
            ELSE [ok |-> TRUE, err |-> NoErr]

\* IndexFile.SortEntries: every chart's versions by descending version
SortEntries(e) ==
    [e EXCEPT !.pkgs = [c \in DOMAIN e.pkgs |->
        SortSlice("Version", e.pkgs[c])]]

loadIndex(doc) ==
    IF ~doc.wellFormed THEN [index |-> NilEntries, err |-> ErrYaml]
    ELSE IF doc.APIVersion = ""
         THEN [index |-> SortEntries(doc.Entries), err |-> ErrNoAPIVersion]
         ELSE [index |-> SortEntries(doc.Entries), err |-> NoErr]

LoadRepoIndex(r) ==
    LET d == LoadData(r)
    IN IF d.err # NoErr THEN [index |-> NilEntries, err |-> d.err]
       ELSE LET i == loadIndex(r.doc)
            IN IF i.err # NoErr THEN [index |-> NilEntries, err |-> i.err]
               ELSE i

(***************************************************************************)
(* pkg/helm/cache.go                                                       *)
(***************************************************************************)
SetChartCache(cache, repoName, entries) == Put(cache, repoName, entries)

GetChartCacheByRepo(cache, repoName) ==
    IF Has(cache, repoName)
    THEN [entries |-> cache[repoName], exists |-> TRUE]
    ELSE [entries |-> NilEntries, exists |-> FALSE]

DeleteChartCache(cache, repoName) == Del(cache, repoName)

(***************************************************************************)
(* The repository catalog (custom resources of the cluster)                *)
(***************************************************************************)
NameR == << 114 >>
NameRUpper == << 82 >>
NameS == << 115 >>
NameX == << 120 >>
NameEmpty == << >>
OfficialHarborDisplayName == << 111 >>
LocalHarborDisplayName == << 108 >>

CR(meta, display, auth) == [Name |-> meta, DisplayName |-> display, BasicAuth |-> auth]
NoCR == CR(NameEmpty, NameEmpty, FALSE)

\* the names callers pass to the handlers
CallNames == {NameR, NameRUpper, NameX, NameEmpty}

\* a lookup that takes the first resource listed, whatever name is asked for
getCustomRepoByNameFirst(repoName) ==
    IF DOMAIN repoCR = {} THEN [repository |-> NoCR, found |-> FALSE]
    ELSE [repository |-> repoCR[CHOOSE m \in DOMAIN repoCR : TRUE], found |-> TRUE]

\* getCustomRepoByName: the resource is looked up under the lower-cased name
getCustomRepoByName(repoName) ==
    LET metaName == ToLower(repoName)
    IN IF Has(repoCR, metaName)
       THEN [repository |-> repoCR[metaName], found |-> TRUE]
       ELSE [repository |-> NoCR, found |-> FALSE]

(***************************************************************************)
(* asyncUpdateRepository: one worker, one step at a time.  w is the        *)
(* worker, buf the content of its error channel and cap its capacity (a    *)
(* nil channel has none: a send on it never completes).  The order of the  *)
(* buffered values is not kept, every receiver treats them alike.          *)
(***************************************************************************)
NilChan == -1

NewWorker(cr) ==
    [pc |-> "cred", repository |-> cr, resp |-> NoResp, err |-> NoErr,
     wrote |-> FALSE, changed |-> FALSE]
NoWorker == [NewWorker(NoCR) EXCEPT !.pc = "ret"]

errRepo(w) == [Name |-> w.repository.Name, Err |-> w.err]

\* repoCRtoRepoEntry: the secrets are read only when the resource names one
repoCRtoRepoEntry(w) ==
    LET e == env[w.repository.Name]
    IN {[w EXCEPT !.pc = "fetch"] : x \in {f \in e.secret : ~f \/ ~w.repository.BasicAuth}}
       \cup {[w EXCEPT !.pc = "send", !.err = ErrSecret] :
                x \in {f \in e.secret : f /\ w.repository.BasicAuth}}

\* UpdateChartCache, up to the test of the error of LoadRepoIndex
UpdateChartCacheLoad(w) ==
    {LET li == LoadRepoIndex(r)
     IN IF li.err # NoErr
        THEN [w EXCEPT !.pc = "send", !.resp = r, !.err = li.err]
        ELSE [w EXCEPT !.pc = "write", !.resp = r] : r \in env[w.repository.Name].resps}

\* UpdateChartCache, the locked assignment
UpdateChartCacheStore(w, cache) ==
    SetChartCache(cache, w.repository.DisplayName, LoadRepoIndex(w.resp).index)

\* patchRepoModificationTime: fails when the resource is gone or the API fails
patchRepoModificationTime(w) ==
    LET e == env[w.repository.Name]
    IN {[w EXCEPT !.pc = "ret"] : x \in {f \in e.patch : ~f /\ Has(repoCR, w.repository.Name)}}
       \cup {[w EXCEPT !.pc = "send", !.err = ErrPatch] :
                x \in {f \in e.patch : f \/ ~Has(repoCR, w.repository.Name)}}

asyncUpdateRepository(w, cache, buf, cap) ==
    CASE w.pc = "cred" ->
           {[w |-> v, cache |-> cache, buf |-> buf] : v \in repoCRtoRepoEntry(w)}
      [] w.pc = "fetch" ->
           {[w |-> v, cache |-> cache, buf |-> buf] : v \in UpdateChartCacheLoad(w)}
      [] w.pc = "write" ->
           LET c == UpdateChartCacheStore(w, cache)
           IN {[w |-> [w EXCEPT !.pc = "patch", !.wrote = TRUE, !.changed = (c # cache)],
                cache |-> c, buf |-> buf]}
      [] w.pc = "patch" ->
           {[w |-> v, cache |-> cache, buf |-> buf] : v \in patchRepoModificationTime(w)}
      [] w.pc = "send" ->
           IF cap # NilChan /\ Cardinality(buf) < cap
           THEN {[w |-> [w EXCEPT !.pc = "ret"], cache |-> cache, buf |-> buf \cup {errRepo(w)}]}
           ELSE {}
      [] OTHER -> {}

(***************************************************************************)
(* SyncRepo: the handler (two steps: the status is loaded, then stored)    *)
(* and the goroutine it starts                                             *)
(***************************************************************************)
Slots == 1 .. MaxSlots

MsgNone == "none"
MsgProvideName == "please provide repo name for sync"
MsgRepoNotFound == "repository not found"
MsgInProgress == "repository syncronizing in progress"
MsgSyncing == "syncronizing repository"
MsgServerFailure == "remote server busy"

Req(pc, name, cr, code, status, msg) ==
    [pc |-> pc, name |-> name, repository |-> cr, code |-> code, status |-> status, msg |-> msg]
IdleReq == Req("idle", NameEmpty, NoCR, 0, 0, MsgNone)

Task(pc, key, w, buf, final) == [pc |-> pc, key |-> key, w |-> w, buf |-> buf, final |-> final]
IdleTask == Task("idle", NameEmpty, NoWorker, {}, MsgNone)

Load(m, key) == IF Has(m, key) THEN m[key] ELSE "nil"
Store(m, key, value) == Put(m, key, value)

\* SyncRepo up to the switch on the loaded status
SyncRepoLoad(repoDisplayName) ==
    IF repoDisplayName = NameEmpty
    THEN Req("returned", repoDisplayName, NoCR, ClientError, StatusBadRequest, MsgProvideName)
    ELSE LET g == getCustomRepoByName(repoDisplayName)
             status == Load(repoAsyncTaskMap, repoDisplayName)
         IN IF ~g.found
            THEN Req("returned", repoDisplayName, NoCR, ClientError, StatusBadRequest,
                     MsgRepoNotFound)
            ELSE IF status = syncInProgressMsg
            THEN Req("returned", repoDisplayName, NoCR, ClientError, StatusBadRequest,
                     MsgInProgress)
            ELSE IF status \in {syncFailedMsg, syncCompleteMsg, "nil"}
            THEN Req("store", repoDisplayName, g.repository, 0, 0, MsgNone)
            ELSE Req("returned", repoDisplayName, NoCR, ServerError,
                     StatusInternalServerError, MsgServerFailure)

SyncRepoCall(i, repoDisplayName) ==
    /\ req[i].pc \in {"idle", "returned"}
    /\ task[i].pc \in {"idle", "done"}
    /\ req' = [req EXCEPT ![i] = SyncRepoLoad(repoDisplayName)]
    /\ UNCHANGED <<tagc, calc, mu>>
    /\ UNCHANGED <<repoCR, repoChartCache, repoAsyncTaskMap, env, task, btask,
                   errRepoList, wg, collector, resp, lastSet>>

\* the Store of in_progress, the go statement and the accepted response
SyncRepoStore(i) ==
    /\ req[i].pc = "store"
    /\ repoAsyncTaskMap' = Store(repoAsyncTaskMap, req[i].name, syncInProgressMsg)
    /\ task' = [task EXCEPT ![i] =
                  Task("async", req[i].name, NewWorker(req[i].repository), {}, MsgNone)]
    /\ req' = [req EXCEPT ![i] =
                  Req("returned", req[i].name, req[i].repository, Success, StatusAccepted,
                      MsgSyncing)]
    /\ UNCHANGED <<tagc, calc, mu>>
    /\ UNCHANGED <<repoCR, repoChartCache, env, btask, errRepoList, wg, collector, resp,
                   lastSet>>

\* the cache key a worker writes, and the history of what was stored under it
Written(w, cache, hist) ==
    IF w.pc = "write"
    THEN Put(hist, w.repository.DisplayName, cache[w.repository.DisplayName])
    ELSE hist

\* the goroutine: asyncUpdateRepository on a channel of capacity 1
SyncRepoAsync(i) ==
    /\ task[i].pc = "async"
    /\ \E o \in asyncUpdateRepository(task[i].w, repoChartCache, task[i].buf, SyncChanCap) :
          /\ task' = [task EXCEPT ![i] =
                        [@ EXCEPT !.w = o.w, !.buf = o.buf,
                                  !.pc = IF o.w.pc = "ret" THEN "complete" ELSE "async"]]
          /\ repoChartCache' = o.cache
          /\ lastSet' = Written(task[i].w, o.cache, lastSet)
    /\ UNCHANGED <<tagc, calc, mu>>
    /\ UNCHANGED <<repoCR, repoAsyncTaskMap, env, req, btask, errRepoList, wg, collector,
                   resp>>

\* close(errRepoList) and the Store of complete
SyncRepoComplete(i) ==
    /\ task[i].pc = "complete"
    /\ repoAsyncTaskMap' = Store(repoAsyncTaskMap, task[i].key, syncCompleteMsg)
    /\ task' = [task EXCEPT ![i] = [@ EXCEPT !.pc = "drain", !.final = syncCompleteMsg]]
    /\ UNCHANGED <<tagc, calc, mu>>
    /\ UNCHANGED <<repoCR, repoChartCache, env, req, btask, errRepoList, wg, collector,
                   resp, lastSet>>

\* a goroutine that ends without ranging over its channel
SyncRepoDrainNoStore(i) ==
    /\ task[i].pc = "drain"
    /\ task' = [task EXCEPT ![i] = [@ EXCEPT !.pc = "done", !.buf = {}]]
    /\ UNCHANGED <<tagc, calc, mu>>
    /\ UNCHANGED <<repoCR, repoChartCache, repoAsyncTaskMap, env, req, btask, errRepoList,
                   wg, collector, resp, lastSet>>

\* the range over the closed channel: one Store of failed per value received
SyncRepoDrain(i) ==
    /\ task[i].pc = "drain"
    /\ IF task[i].buf = {}
       THEN /\ task' = [task EXCEPT ![i] = [@ EXCEPT !.pc = "done"]]
            /\ UNCHANGED repoAsyncTaskMap
       ELSE \E e \in task[i].buf :
               /\ repoAsyncTaskMap' = Store(repoAsyncTaskMap, task[i].key, syncFailedMsg)
               /\ task' = [task EXCEPT ![i] =
                             [@ EXCEPT !.buf = @ \ {e}, !.final = syncFailedMsg]]
    /\ UNCHANGED <<tagc, calc, mu>>
    /\ UNCHANGED <<repoCR, repoChartCache, env, req, btask, errRepoList, wg, collector,
                   resp, lastSet>>

MsgTaskNotFound == "update task not found"

GetRepoSyncStatus(repoName) ==
    IF ~Has(repoAsyncTaskMap, repoName)
    THEN [code |-> ClientError, status |-> StatusBadRequest, msg |-> MsgTaskNotFound]
    ELSE [code |-> Success, status |-> StatusOK, msg |-> repoAsyncTaskMap[repoName]]

(***************************************************************************)
(* DeleteRepo and the chart queries                                        *)
(***************************************************************************)
MsgNotAllowed == "repo not allowed for modification"
MsgNotExists == "deletion failed, repo doesn't exists"
MsgDeleted == "deleted"
MsgSuccess == "success"
MsgPleaseSync == "please sync your repository"
MsgNoRepository == "repository not found"

Resp(op, name, code, status, msg, data) ==
    [op |-> op, name |-> name, code |-> code, status |-> status, msg |-> msg, data |-> data]
NoResponse == Resp("none", NameEmpty, 0, 0, MsgNone, << >>)

isRepoModificationAllowed(repoName) ==
    LET lowerRepoName == ToLower(repoName)
    IN lowerRepoName # ToLower(OfficialHarborDisplayName)
       /\ lowerRepoName # ToLower(LocalHarborDisplayName)

DeleteNames == {NameR, NameRUpper, NameS, NameX, OfficialHarborDisplayName}

DeleteRepo(name) ==
    LET repoName == ToLower(name)
    IN /\ IF ~isRepoModificationAllowed(name)
          THEN /\ resp' = Resp("DeleteRepo", name, StatusBadRequest, StatusBadRequest,
                               MsgNotAllowed, << >>)
               /\ UNCHANGED <<repoCR, repoChartCache, lastSet>>
          ELSE IF ~Has(repoCR, repoName)
          THEN /\ resp' = Resp("DeleteRepo", name, ClientError, StatusBadRequest,
                               MsgNotExists, << >>)
               /\ UNCHANGED <<repoCR, repoChartCache, lastSet>>
          ELSE /\ repoCR' = Del(repoCR, repoName)
               /\ repoChartCache' = DeleteChartCache(repoChartCache, repoName)
               /\ lastSet' = Del(lastSet, repoName)
               /\ resp' = Resp("DeleteRepo", name, Success, StatusOK, MsgDeleted, << >>)
       /\ UNCHANGED <<tagc, calc, mu>>
       /\ UNCHANGED <<repoAsyncTaskMap, env, req, task, btask, errRepoList, wg, collector>>

RECURSIVE SetToSeq(_)
SetToSeq(S) ==
    IF S = {} THEN << >>
    ELSE LET x == CHOOSE y \in S : TRUE IN << x >> \o SetToSeq(S \ {x})

\* ExtractUniqueKeywords: the keywords of all versions, as a set
ExtractUniqueKeywords(chartVersions) ==
    UNION {chartVersions[k].Keywords : k \in DOMAIN chartVersions}

\* a loop body that leaves the keywords of the latest version as they are
LatestInPlaceNoUnion(chartVersions) == SortSlice("Created", chartVersions)

\* the body of the loop of getLatestChartsFromRepository for one chart: the
\* slice held by the cache is sorted in place by descending creation time and
\* the keywords of its first record are overwritten
LatestInPlace(chartVersions) ==
    LET sorted == SortSlice("Created", chartVersions)
    IN IF Len(sorted) = 0 THEN sorted
       ELSE [sorted EXCEPT ![1].Keywords = ExtractUniqueKeywords(sorted)]

getLatestChartsFromRepository(cache, repository) ==
    LET g == GetChartCacheByRepo(cache, repository.DisplayName)
        charts == SetToSeq(DOMAIN g.entries.pkgs)
        after == [c \in DOMAIN g.entries.pkgs |-> LatestInPlace(g.entries.pkgs[c])]
        kept == SelectSeq(charts, LAMBDA c : Len(after[c]) # 0)
    IN [result |-> [k \in DOMAIN kept |->
                      [Metadata |-> after[kept[k]][1], Repo |-> repository.DisplayName]],
        cache |-> IF g.exists
                  THEN Put(cache, repository.DisplayName, [g.entries EXCEPT !.pkgs = after])
                  ELSE cache]

\* filterSelectedRepositories for one requested name: exact match on the display name
filterSelectedRepositories(name) ==
    SetToSeq({repoCR[m] : m \in {x \in DOMAIN repoCR : repoCR[x].DisplayName = name}})

QueryNames == {NameR, NameRUpper, NameS, NameX}

\* GetLatestCharts for one repository name, no filter and no page limit
GetLatestCharts(name) ==
    LET selected == filterSelectedRepositories(name)
        got == IF Len(selected) = 0
               THEN [result |-> << >>, cache |-> repoChartCache]
               ELSE getLatestChartsFromRepository(repoChartCache, selected[1])
    IN /\ repoChartCache' = got.cache
       /\ resp' = Resp("GetLatestCharts", name, Success, StatusOK, MsgSuccess, got.result)
       /\ UNCHANGED <<tagc, calc, mu>>
       /\ UNCHANGED <<repoCR, repoAsyncTaskMap, env, req, task, btask, errRepoList, wg,
                      collector, lastSet>>

\* GetChartVersion with an empty version: all versions of the chart
GetChartVersion(repoName, chartName) ==
    LET g == getCustomRepoByName(repoName)
        c == GetChartCacheByRepo(repoChartCache, g.repository.DisplayName)
        entries == IF Has(c.entries.pkgs, chartName) THEN c.entries.pkgs[chartName] ELSE << >>
    IN /\ resp' =
            IF ~g.found
            THEN Resp("GetChartVersion", repoName, ResourceNotFound, StatusNotFound,
                      MsgNoRepository, << >>)
            ELSE IF ~c.exists
            THEN Resp("GetChartVersion", repoName, ResourceNotFound, StatusNotFound,
                      MsgPleaseSync, << >>)
            ELSE Resp("GetChartVersion", repoName, Success, StatusOK, MsgSuccess,
                      [k \in DOMAIN entries |->
                          [Metadata |-> entries[k], Repo |-> g.repository.DisplayName]])
       /\ UNCHANGED <<tagc, calc, mu>>
       /\ UNCHANGED <<repoCR, repoChartCache, repoAsyncTaskMap, env, req, task, btask,
                      errRepoList, wg, collector, lastSet>>

(***************************************************************************)
(* The state of the parts a specification leaves alone                     *)
(***************************************************************************)
IdleTag ==
    [pc |-> "idle", tags |-> << >>, k |-> 0, i |-> 0, officialHarborBearerToken |-> "",
     result |-> << >>, taggedCharts |-> << >>, challenge |-> FALSE, requests |-> 0,
     fetches |-> 0, fetched |-> "", hist |-> << >>, outcome |-> << >>, w |-> NoWorker]
NoCalc == [op |-> "none"]
Unlocked == [w |-> 0, r |-> {}, op |-> EmptyMap, fatal |-> FALSE]

(***************************************************************************)
(* Spec: concurrent SyncRepo calls on one repository and their goroutines  *)
(***************************************************************************)
Answers(resps) == [resps |-> resps, secret |-> BOOLEAN, patch |-> BOOLEAN]

SyncResponses == {RespOK(DocA), RespOK(DocB), RespTransport}

CatalogOne(displayR) == Put(EmptyMap, NameR, CR(NameR, displayR, TRUE))
CatalogTwo(displayR) == Put(CatalogOne(displayR), NameS, CR(NameS, NameS, FALSE))

NoBatch ==
    /\ btask = EmptyMap
    /\ errRepoList = {}
    /\ wg = 0
    /\ collector = [pc |-> "idle", logged |-> {}]

Fresh ==
    /\ repoChartCache = EmptyMap
    /\ repoAsyncTaskMap = EmptyMap
    /\ req = [i \in Slots |-> IdleReq]
    /\ task = [i \in Slots |-> IdleTask]
    /\ resp = NoResponse
    /\ lastSet = EmptyMap
    /\ tagc = IdleTag
    /\ calc = NoCalc
    /\ mu = Unlocked

Init ==
    /\ repoCR \in {CatalogOne(NameR), CatalogOne(NameRUpper)}
    /\ env = [m \in DOMAIN repoCR |-> Answers(SyncResponses)]
    /\ Fresh
    /\ NoBatch

Next ==
    \/ \E i \in Slots, n \in CallNames : SyncRepoCall(i, n)
    \/ \E i \in Slots : SyncRepoStore(i)
    \/ \E i \in Slots : SyncRepoAsync(i)
    \/ \E i \in Slots : SyncRepoComplete(i)
    \/ \E i \in Slots : SyncRepoDrain(i)

Spec == Init /\ [][Next]_vars

\* every goroutine that can take a step eventually takes one
Fairness ==
    \A i \in Slots :
        /\ WF_vars(SyncRepoAsync(i))
        /\ WF_vars(SyncRepoComplete(i))
        /\ WF_vars(SyncRepoDrain(i))

\* SpecFair: two racing SyncRepo calls of one repository under that fairness;
\* the server answers with one index or fails
FairResponses == {RespOK(DocB), RespTransport}
FairCallNames == {NameR, NameRUpper}

InitFair ==
    /\ repoCR = CatalogOne(NameRUpper)
    /\ env = [m \in DOMAIN repoCR |-> Answers(FairResponses)]
    /\ Fresh
    /\ NoBatch

NextFair ==
    \/ \E i \in Slots, n \in FairCallNames : SyncRepoCall(i, n)
    \/ \E i \in Slots : SyncRepoStore(i)
    \/ \E i \in Slots : SyncRepoAsync(i)
    \/ \E i \in Slots : SyncRepoComplete(i)
    \/ \E i \in Slots : SyncRepoDrain(i)

SpecFair == InitFair /\ [][NextFair]_vars /\ Fairness

(***************************************************************************)
(* SpecQuery: one SyncRepo at a time on a catalog of two repositories,     *)
(* with deletions and queries; the cluster API does not fail               *)
(***************************************************************************)
QueryCallNames == {NameR, NameS}

Reliable(resps) == [resps |-> resps, secret |-> {FALSE}, patch |-> {FALSE}]

InitQuery ==
    /\ repoCR \in {CatalogTwo(NameR), CatalogTwo(NameRUpper)}
    /\ env = [m \in DOMAIN repoCR |-> Reliable(SyncResponses)]
    /\ Fresh
    /\ NoBatch

NextQuery ==
    \/ \E n \in QueryCallNames : SyncRepoCall(1, n)
    \/ SyncRepoStore(1)
    \/ SyncRepoAsync(1)
    \/ SyncRepoComplete(1)
    \/ SyncRepoDrain(1)
    \/ \E n \in DeleteNames : DeleteRepo(n)
    \/ \E n \in QueryNames : GetLatestCharts(n)
    \/ \E n \in QueryNames : GetChartVersion(n, ChartP)

SpecQuery == InitQuery /\ [][NextQuery]_vars

(***************************************************************************)
(* SpecLoad: repeated SyncRepo of one repository whose server may give     *)
(* every response                                                          *)
(***************************************************************************)
InitLoad ==
    /\ repoCR \in {CatalogOne(NameR), CatalogOne(NameRUpper)}
    /\ env = [m \in DOMAIN repoCR |-> Answers(Responses)]
    /\ Fresh
    /\ NoBatch

NextLoad ==
    \/ \E n \in {NameR, NameRUpper} : SyncRepoCall(1, n)
    \/ SyncRepoStore(1)
    \/ SyncRepoAsync(1)
    \/ SyncRepoComplete(1)
    \/ SyncRepoDrain(1)

SpecLoad == InitLoad /\ [][NextLoad]_vars

(***************************************************************************)
(* SyncAllRepos: one goroutine per repository, a wait-group and the        *)
(* goroutine that waits for it, closes the channel and logs                *)
(***************************************************************************)
MsgSynchronizing == "synchronizing repositories"

Collector(pc, logged) == [pc |-> pc, logged |-> logged]

SyncAllRepos ==
    /\ collector.pc = "idle"
    /\ errRepoList' = {}
    /\ btask' = [m \in DOMAIN repoCR |-> NewWorker(repoCR[m])]
    /\ wg' = Cardinality(DOMAIN repoCR)
    /\ collector' = Collector("wait", {})
    /\ resp' = Resp("SyncAllRepos", NameEmpty, Success, StatusAccepted, MsgSynchronizing, << >>)
    /\ UNCHANGED <<tagc, calc, mu>>
    /\ UNCHANGED <<repoCR, repoChartCache, repoAsyncTaskMap, env, req, task, lastSet>>

\* a worker runs until it returns or is stopped by a send that cannot proceed
RECURSIVE RunWorker(_, _, _, _)
RunWorker(w, cache, buf, cap) ==
    LET steps == asyncUpdateRepository(w, cache, buf, cap)
    IN IF steps = {} THEN {[w |-> w, cache |-> cache, buf |-> buf]}
       ELSE UNION {RunWorker(o.w, o.cache, o.buf, cap) : o \in steps}

\* the goroutine of one repository; wg.Done is deferred to its return
SyncAllReposWorker(m) ==
    /\ Has(btask, m)
    /\ btask[m].pc # "ret"
    /\ \E o \in RunWorker(btask[m], repoChartCache, errRepoList, BatchChanCap) :
          /\ o.w # btask[m]
          /\ btask' = [btask EXCEPT ![m] = o.w]
          /\ repoChartCache' = o.cache
          /\ errRepoList' = o.buf
          /\ wg' = IF o.w.pc = "ret" THEN wg - 1 ELSE wg
          /\ lastSet' = IF o.w.wrote /\ ~btask[m].wrote
                        THEN Put(lastSet, o.w.repository.DisplayName,
                                 o.cache[o.w.repository.DisplayName])
                        ELSE lastSet
    /\ UNCHANGED <<tagc, calc, mu>>
    /\ UNCHANGED <<repoCR, repoAsyncTaskMap, env, req, task, collector, resp>>

\* wg.Wait returns, the channel is closed
SyncAllReposJoin ==
    /\ collector.pc = "wait"
    /\ wg = 0
    /\ collector' = [collector EXCEPT !.pc = "log"]
    /\ UNCHANGED <<tagc, calc, mu>>
    /\ UNCHANGED <<repoCR, repoChartCache, repoAsyncTaskMap, env, req, task, btask,
                   errRepoList, wg, resp, lastSet>>

\* the range over the closed channel: one log line per value received
SyncAllReposLog ==
    /\ collector.pc = "log"
    /\ IF errRepoList = {}
       THEN /\ collector' = [collector EXCEPT !.pc = "done"]
            /\ UNCHANGED errRepoList
       ELSE \E e \in errRepoList :
               /\ collector' = [collector EXCEPT !.logged = @ \cup {e.Name}]
               /\ errRepoList' = errRepoList \ {e}
    /\ UNCHANGED <<tagc, calc, mu>>
    /\ UNCHANGED <<repoCR, repoChartCache, repoAsyncTaskMap, env, req, task, btask, wg,
                   resp, lastSet>>

(***************************************************************************)
(* SpecBatch: one SyncAllRepos over a catalog in which the first           *)
(* repositories fail, all at the same step of their sync                   *)
(***************************************************************************)
BatchName(k) == << 114, 96 + k >>

BatchCatalog(n) ==
    [m \in {BatchName(k) : k \in 1 .. n} |-> CR(m, m, TRUE)]

FailAt(step) ==
    [resps |-> IF step = "fetch" THEN {RespTransport} ELSE {RespOK(DocB)},
     secret |-> {step = "secret"},
     patch |-> {step = "patch"}]

InitBatch ==
    /\ \E n \in {1, BatchRepos} : repoCR = BatchCatalog(n)
    /\ \E k \in 0 .. Cardinality(DOMAIN repoCR), step \in {"secret", "fetch", "patch"} :
          env = [m \in DOMAIN repoCR |->
                   IF m \in {BatchName(j) : j \in 1 .. k} THEN FailAt(step) ELSE FailAt("none")]
    /\ Fresh
    /\ btask = EmptyMap
    /\ errRepoList = {}
    /\ wg = 0
    /\ collector = Collector("idle", {})

NextBatch ==
    \/ SyncAllRepos
    \/ \E m \in DOMAIN btask : SyncAllReposWorker(m)
    \/ SyncAllReposJoin
    \/ SyncAllReposLog

SpecBatch == InitBatch /\ [][NextBatch]_vars

(***************************************************************************)
(* pkg/helm/charts.go: the order of chart names                            *)
(***************************************************************************)
ascendingOrder == 1
descendingOrder == 0 - 1
orderZero == 0
orderOne == 1
orderTwo == 2
orderThree == 3

IsDigit(r) == r >= 48 /\ r <= 57
IsUpper(r) == r >= 65 /\ r <= 90
IsLetter(r) == IsUpper(r) \/ (r >= 97 /\ r <= 122)
\* unicode.IsSymbol or unicode.IsPunct, on the printable ASCII characters
IsSymbolOrPunct(r) == r >= 33 /\ r <= 126 /\ ~IsDigit(r) /\ ~IsLetter(r)
ToLowerRune(r) == IF IsUpper(r) THEN r + 32 ELSE r

getPriority(r) ==
    IF IsSymbolOrPunct(r) THEN orderZero
    ELSE IF IsLetter(r) THEN orderOne
    ELSE IF IsDigit(r) THEN orderTwo
    ELSE orderThree

\* the loop of customCompare from position i on
RECURSIVE customCompareFrom(_, _, _, _)
customCompareFrom(a, b, sortOrder, i) ==
    IF i > Len(a) \/ i > Len(b)
    THEN (Len(a) < Len(b)) = (sortOrder = 1)
    ELSE LET ra == a[i]
             rb == b[i]
             pa == getPriority(ra)
             pb == getPriority(rb)
         IN IF pa # pb THEN (pa < pb) = (sortOrder = 1)
            ELSE IF ra # rb
            THEN IF ToLowerRune(ra) = ToLowerRune(rb)
                 THEN (ra < rb) = (sortOrder = 1)
                 ELSE (ToLowerRune(ra) < ToLowerRune(rb)) = (sortOrder = 1)
            ELSE customCompareFrom(a, b, sortOrder, i + 1)

\* a comparison that ignores the case of the letters
customCompareLowered(a, b, sortOrder) ==
    customCompareFrom(ToLower(a), ToLower(b), sortOrder, 1)

customCompare(a, b, sortOrder) == customCompareFrom(a, b, sortOrder, 1)

\* sort.Slice on a short slice: insertion sort, x moves left while less(x, left)
RECURSIVE InsertByName(_, _, _)
InsertByName(s, x, sortOrder) ==
    IF s = << >> THEN << x >>
    ELSE IF customCompare(x.Metadata.Name, s[Len(s)].Metadata.Name, sortOrder)
         THEN Append(InsertByName(SubSeq(s, 1, Len(s) - 1), x, sortOrder), s[Len(s)])
         ELSE Append(s, x)

RECURSIVE SortSliceByName(_, _)
SortSliceByName(s, sortOrder) ==
    IF s = << >> THEN << >>
    ELSE InsertByName(SortSliceByName(SubSeq(s, 1, Len(s) - 1), sortOrder), s[Len(s)],
                      sortOrder)

sortChartByName(chartList, ascending) ==
    IF ascending THEN SortSliceByName(chartList, ascendingOrder)
    ELSE SortSliceByName(chartList, descendingOrder)

(***************************************************************************)
(* pkg/helm/charts.go: filterChartVersionSlice.  Keywords are sets, the    *)
(* requested types and scenes are sequences                                *)
(***************************************************************************)
FuyaoExtensionKeyword == "openfuyao-extension"
ApplicationType == "application"

\* strings.Contains on names
stringsContains(s, substr) ==
    \E i \in 0 .. (Len(s) - Len(substr)) : SubSeq(s, i + 1, i + Len(substr)) = substr

Contains(s, str) == str \in s
\* a NotContains that answers as Contains does
NotContainsAsContains(s, str) == str \in s
NotContains(s, str) == str \notin s
ContainsOne(leftArr, rightArr) == \E k \in DOMAIN rightArr : rightArr[k] \in leftArr

\* the loop over searchParam.Types for one chart
RECURSIVE typeCondition(_, _)
typeCondition(keywords, types) ==
    IF types = << >> THEN FALSE
    ELSE LET typeString == Head(types)
         IN IF typeString = ApplicationType
            THEN IF NotContains(keywords, FuyaoExtensionKeyword) THEN TRUE
                 ELSE typeCondition(keywords, Tail(types))
            ELSE IF typeString # ""
            THEN IF Contains(keywords, typeString) THEN TRUE
                 ELSE typeCondition(keywords, Tail(types))
            ELSE typeCondition(keywords, Tail(types))

filterChartVersionSlice(searchParam, chartList) ==
    LET byName == IF searchParam.Chart # << >>
                  THEN SelectSeq(chartList, LAMBDA c :
                          stringsContains(ToLower(c.Metadata.Name), ToLower(searchParam.Chart)))
                  ELSE chartList
        byType == IF Len(searchParam.Types) > 0
                  THEN SelectSeq(byName, LAMBDA c :
                          typeCondition(c.Metadata.Keywords, searchParam.Types))
                  ELSE byName
    IN IF Len(searchParam.Scene) > 0
       THEN SelectSeq(byType, LAMBDA c : ContainsOne(c.Metadata.Keywords, searchParam.Scene))
       ELSE byType

(***************************************************************************)
(* pkg/utils/httputil/util.go: the TLS configuration of a repository.  A   *)
(* PEM string is empty, well-formed ("pem") or not ("bad")                 *)
(***************************************************************************)
Pems == {"", "pem", "bad"}
NilConfig == [isNil |-> TRUE, InsecureSkipVerify |-> FALSE, RootCAs |-> "", tuned |-> FALSE]
TLSConfig(insecure, rootCAs) ==
    [isNil |-> FALSE, InsecureSkipVerify |-> insecure, RootCAs |-> rootCAs, tuned |-> FALSE]

IsHttpsEnabledByPEM(certPEM, keyPEM, caPEM) ==
    IF certPEM = "" THEN FALSE
    ELSE IF keyPEM = "" THEN FALSE
    ELSE IF caPEM = "" THEN FALSE
    ELSE TRUE

GetHttpConfigByPEM(certPEM, keyPEM, caPEM, enableTLS) ==
    IF enableTLS
    THEN IF certPEM # "pem" \/ keyPEM # "pem"
         THEN [config |-> NilConfig, err |-> TRUE]
         ELSE IF caPEM # "pem"
         THEN [config |-> NilConfig, err |-> TRUE]
         ELSE [config |-> TLSConfig(FALSE, caPEM), err |-> FALSE]
    ELSE [config |-> TLSConfig(TRUE, ""), err |-> FALSE]

GetHarborHTTPConfig(repoEntry) ==
    IF repoEntry.Name = OfficialHarborDisplayName
    THEN [config |-> NilConfig, err |-> FALSE]
    ELSE LET enabled == IsHttpsEnabledByPEM(repoEntry.CertFile, repoEntry.KeyFile,
                                            repoEntry.CAFile)
                        /\ repoEntry.InsecureSkipTLSverify
             c == GetHttpConfigByPEM(repoEntry.CertFile, repoEntry.KeyFile,
                                     repoEntry.CAFile, enabled)
         IN IF c.err THEN [config |-> NilConfig, err |-> TRUE]
            ELSE IF repoEntry.Name = LocalHarborDisplayName /\ enabled
            THEN [config |-> [c.config EXCEPT !.tuned = TRUE], err |-> FALSE]
            ELSE c

(***************************************************************************)
(* pkg/server/param/queryparam.go and pageResult                           *)
(***************************************************************************)
noPaginationLimit == 0 - 1
noPaginationPage == 1

\* the integer division of Go: the quotient is truncated towards zero
GoDiv(a, b) ==
    IF a >= 0 THEN a \div b ELSE 0 - ((0 - a) \div b)

Min(a, b) == IF a < b THEN a ELSE b

\* a pagination whose offset is that of the next page
newPaginationNextPage(limit, page) ==
    [Limit |-> limit, Offset |-> page * limit, CurrentPage |-> page]

newPagination(limit, page) ==
    [Limit |-> limit, Offset |-> (page - 1) * limit, CurrentPage |-> page]

GetNoPagination == newPagination(noPaginationLimit, noPaginationPage)

GetPaginationResult(p, total) ==
    IF p.Limit <= 0 \/ p.Offset < 0
    THEN [startIndex |-> 0, endIndex |-> total, totalPages |-> 1]
    ELSE IF p.Limit = noPaginationLimit
    THEN [startIndex |-> 0, endIndex |-> total, totalPages |-> 1]
    ELSE LET offset == IF p.Offset > total THEN 0 ELSE p.Offset
         IN [startIndex |-> offset,
             endIndex |-> Min(offset + p.Limit, total),
             totalPages |-> GoDiv(total - 1, p.Limit) + 1]

\* strconv.Atoi of a query parameter: a number, or an error when the
\* parameter is absent or no number
Atoi(n) == [n |-> n, err |-> FALSE]
Absent == [n |-> 0, err |-> TRUE]

ParseQueryParameter(limitParam, pageParam) ==
    newPagination(IF limitParam.err THEN 0 - 1 ELSE limitParam.n,
                  IF pageParam.err THEN 1 ELSE pageParam.n)

pageResult(result, pagination) ==
    LET total == Len(result)
        g == GetPaginationResult(pagination, total)
    IN [TotalItems |-> total,
        Items |-> SubSeq(result, g.startIndex + 1, g.endIndex),
        CurrentPage |-> pagination.CurrentPage,
        TotalPages |-> g.totalPages]

(***************************************************************************)
(* SpecPure: the sort and the pagination applied to bounded inputs         *)
(***************************************************************************)
MaxNames == 4
MaxTotal == 25
MaxLimit == 10
MaxPage == 4

NameA1 == << 97, 49 >>
NameA2Upper == << 65, 50 >>
NameDashX == << 45, 120 >>
Name9 == << 57 >>
NameA == << 97 >>
SortNames == {NameA1, NameA2Upper, NameDashX, Name9, NameA}

Chart(name) == [Metadata |-> Ver(name, 1, 1, {}), Repo |-> NameR]
NamesOf(chartList) == [k \in DOMAIN chartList |-> chartList[k].Metadata.Name]

\* the lists of charts of different names, up to MaxNames of them
ChartLists ==
    {[k \in DOMAIN l |-> Chart(l[k])] :
        l \in {f \in UNION {[1 .. n -> SortNames] : n \in 1 .. MaxNames} :
                  \A x, y \in DOMAIN f : x # y => f[x] # f[y]}}

Calc(op, in, out) == [op |-> op, in |-> in, out |-> out]

otherVars == <<repoCR, repoChartCache, repoAsyncTaskMap, env, req, task, btask,
               errRepoList, wg, collector, resp, lastSet, tagc, mu>>

SortChartByName(chartList, ascending) ==
    /\ calc = NoCalc
    /\ calc' = Calc("sortChartByName", [chartList |-> chartList, ascending |-> ascending],
                    sortChartByName(chartList, ascending))
    /\ UNCHANGED otherVars

Items(total) == [k \in 1 .. total |-> k]

PageResult(total, limitParam, pageParam) ==
    /\ calc = NoCalc
    /\ calc' = Calc("pageResult",
                    [result |-> Items(total), limit |-> limitParam, page |-> pageParam],
                    pageResult(Items(total), ParseQueryParameter(limitParam, pageParam)))
    /\ UNCHANGED otherVars

\* the names compared: every name of up to MaxNameLen characters of a
\* punctuation mark, letters of both cases, a digit and a space, and two
\* longer names that differ by the case of their first letter
MaxNameLen == 2
Alphabet == {45, 65, 97, 66, 98, 57, 32}
NameAbc == << 97, 98, 99 >>
NameAbcUpper == << 65, 98, 99 >>
CompareNames ==
    UNION {[1 .. n -> Alphabet] : n \in 0 .. MaxNameLen} \cup {NameAbc, NameAbcUpper}

CustomCompare(a, b, sortOrder) ==
    /\ calc = NoCalc
    /\ calc' = Calc("customCompare", [a |-> a, b |-> b, sortOrder |-> sortOrder],
                    customCompare(a, b, sortOrder))
    /\ UNCHANGED otherVars

\* the charts filtered: two names, keywords with and without the reserved
\* ones, and lists of up to MaxCharts charts
MaxCharts == 2
NameAUpperB == << 65, 98 >>
FilterKeywords ==
    {{}, {ApplicationType}, {FuyaoExtensionKeyword},
     {FuyaoExtensionKeyword, ApplicationType}, {"db", "ai"}, {FuyaoExtensionKeyword, "db"}}
FilterCharts ==
    {[Metadata |-> Ver(n, 1, 1, kw), Repo |-> NameR] :
        n \in {NameA, NameAUpperB}, kw \in FilterKeywords}
FilterLists == UNION {[1 .. n -> FilterCharts] : n \in 0 .. MaxCharts}
SearchParams ==
    [Chart : {<< >>, NameA, << 65 >>, << 97, 98 >>},
     Types : {<< >>, << ApplicationType >>, << "db" >>, << "" >>,
              << ApplicationType, "db" >>, << "", "db" >>},
     Scene : {<< >>, << "ai" >>, << "hpc", "ai" >>}]

FilterChartVersionSlice(searchParam, chartList) ==
    /\ calc = NoCalc
    /\ calc' = Calc("filterChartVersionSlice",
                    [searchParam |-> searchParam, chartList |-> chartList],
                    filterChartVersionSlice(searchParam, chartList))
    /\ UNCHANGED otherVars

RepoEntries ==
    [Name : {OfficialHarborDisplayName, LocalHarborDisplayName, NameR},
     CertFile : Pems, KeyFile : Pems, CAFile : Pems, InsecureSkipTLSverify : BOOLEAN]

HarborHTTPConfig(repoEntry) ==
    /\ calc = NoCalc
    /\ calc' = Calc("GetHarborHTTPConfig", repoEntry, GetHarborHTTPConfig(repoEntry))
    /\ UNCHANGED otherVars

InitPure ==
    /\ repoCR = EmptyMap
    /\ env = EmptyMap
    /\ Fresh
    /\ NoBatch

NextPure ==
    \/ /\ calc = NoCalc
       /\ \E l \in ChartLists, ascending \in BOOLEAN : SortChartByName(l, ascending)
    \/ /\ calc = NoCalc
       /\ \E total \in 0 .. MaxTotal,
             limit \in {Absent} \cup {Atoi(n) : n \in noPaginationLimit .. MaxLimit},
             page \in {Absent} \cup {Atoi(n) : n \in 0 .. MaxPage} :
                PageResult(total, limit, page)
    \/ /\ calc = NoCalc
       /\ \E a, b \in CompareNames, sortOrder \in {ascendingOrder, descendingOrder} :
             CustomCompare(a, b, sortOrder)
    \/ /\ calc = NoCalc
       /\ \E searchParam \in SearchParams, chartList \in FilterLists :
             FilterChartVersionSlice(searchParam, chartList)
    \/ /\ calc = NoCalc
       /\ \E repoEntry \in RepoEntries : HarborHTTPConfig(repoEntry)

SpecPure == InitPure /\ [][NextPure]_vars

(***************************************************************************)
(* pkg/helm/charts.go: GetChartsWithOfficialTags.  tagc holds the position *)
(* of the handler, the process-wide bearer token and, as history of the    *)
(* lookup of the current tag, what was requested and what was answered     *)
(***************************************************************************)
maxRetries == 3
StatusUnauthorized == 401

\* the answers of the tag endpoint: a status, whether the Www-Authenticate
\* header is there, and the tagged charts, decodable or not
TagAnswer(status, challenge, charts) ==
    [status |-> status, challenge |-> challenge, TaggedCharts |-> charts]
Encoded(name, ok) == [name |-> name, ok |-> ok]
TagAnswers ==
    {TagAnswer(StatusOK, FALSE, << Encoded(ChartP, TRUE) >>),
     TagAnswer(StatusOK, FALSE, << Encoded(ChartP, FALSE) >>),
     TagAnswer(StatusUnauthorized, TRUE, << >>),
     TagAnswer(StatusUnauthorized, FALSE, << >>),
     TagAnswer(StatusInternalServerError, FALSE, << >>)}

\* the answers of the token endpoint
TokenAnswer(status, token) == [status |-> status, token |-> token]
TokenAnswers ==
    {TokenAnswer(StatusOK, "tokenA"), TokenAnswer(StatusOK, "tokenB"),
     TokenAnswer(StatusInternalServerError, "")}

TagLists == {<< "t1" >>, << "t1", "t2" >>}

\* getRepoEntryAndChartVersions of the official repository: the errors it can return
getRepoEntryAndChartVersions(repoName) ==
    LET c == GetChartCacheByRepo(repoChartCache, repoName)
        g == getCustomRepoByName(repoName)
    IN IF ~c.exists \/ ~g.found THEN {TRUE}
       ELSE {w.err # NoErr : w \in repoCRtoRepoEntry(NewWorker(g.repository))}

TagResponse(t) ==
    Resp("GetChartsWithOfficialTags", NameEmpty, Success, StatusOK, MsgSuccess, t.result)

\* the loop of GetChartsWithOfficialTags moves to the next tag, or returns
NextTag(t) ==
    IF t.k = Len(t.tags) THEN [t EXCEPT !.pc = "returned"]
    ELSE [t EXCEPT !.pc = "request", !.k = t.k + 1, !.i = 0, !.requests = 0, !.fetches = 0,
                   !.fetched = "", !.hist = << >>, !.challenge = FALSE,
                   !.taggedCharts = << >>]

\* a handler that gives up at the first tag whose lookup fails
TagFailedAbort(t) == [t EXCEPT !.pc = "returned", !.outcome = Append(@, "failed")]

\* getChartWithOfficialTag returned an error: the tag is logged and skipped
TagFailed(t) == NextTag([t EXCEPT !.outcome = Append(@, "failed")])

\* a loop that gives up after the first round without a response
RetryNever(t) == TagFailed([t EXCEPT !.i = t.i + 1])

\* handleTagRequest returned nil: the next round of the retry loop
Retry(t) ==
    IF t.i + 1 < maxRetries THEN [t EXCEPT !.pc = "request", !.i = t.i + 1]
    ELSE TagFailed([t EXCEPT !.i = t.i + 1])

TagReturn(t) ==
    /\ tagc' = t
    /\ resp' = IF t.pc = "returned" THEN TagResponse(t) ELSE resp

GetChartsWithOfficialTags(tags) ==
    /\ tagc.pc \in {"idle", "returned"}
    /\ \E configErr \in BOOLEAN :
          IF configErr
          THEN /\ tagc' = [IdleTag EXCEPT !.pc = "returned", !.tags = tags,
                              !.officialHarborBearerToken = tagc.officialHarborBearerToken,
                              !.outcome = << "config" >>]
               /\ resp' = Resp("GetChartsWithOfficialTags", NameEmpty, ServerError,
                               StatusInternalServerError, MsgServerFailure, << >>)
          ELSE TagReturn(NextTag([IdleTag EXCEPT !.tags = tags,
                      !.officialHarborBearerToken = tagc.officialHarborBearerToken]))
    /\ UNCHANGED <<repoCR, repoChartCache, repoAsyncTaskMap, env, req, task, btask,
                   errRepoList, wg, collector, lastSet, calc, mu>>

decodeURLSafeBase64String(e) == [out |-> e.name, err |-> ~e.ok]

\* getOfficialTagWithToken and what handleTagRequest and the retry loop do with
\* its result
TagRequest ==
    /\ tagc.pc = "request"
    /\ \E noEntry \in getRepoEntryAndChartVersions(OfficialHarborDisplayName) :
          IF noEntry
          THEN TagReturn(Retry([tagc EXCEPT !.hist = Append(@, "no entry")]))
          ELSE \E a \in TagAnswers :
                 LET t == [tagc EXCEPT !.requests = @ + 1]
                 IN IF a.status = StatusUnauthorized
                    THEN TagReturn([t EXCEPT !.pc = "token", !.challenge = a.challenge,
                                     !.hist = Append(@, IF a.challenge THEN "401 challenge"
                                                        ELSE "401")])
                    ELSE IF a.status # StatusOK
                    THEN TagReturn(Retry([t EXCEPT !.hist = Append(@, "not 200")]))
                    ELSE IF \E x \in DOMAIN a.TaggedCharts :
                               decodeURLSafeBase64String(a.TaggedCharts[x]).err
                    THEN TagReturn(TagFailed([t EXCEPT !.hist = Append(@, "undecodable")]))
                    ELSE TagReturn([t EXCEPT !.pc = "filter", !.hist = Append(@, "200"),
                             !.taggedCharts = [x \in DOMAIN a.TaggedCharts |->
                                decodeURLSafeBase64String(a.TaggedCharts[x]).out]])
    /\ UNCHANGED <<repoCR, repoChartCache, repoAsyncTaskMap, env, req, task, btask,
                   errRepoList, wg, collector, lastSet, calc, mu>>

\* updateOfficialHarborBearerToken, after a 401
TagToken ==
    /\ tagc.pc = "token"
    /\ IF ~tagc.challenge
       THEN TagReturn(Retry([tagc EXCEPT !.hist = Append(@, "no challenge")]))
       ELSE \E noEntry \in getRepoEntryAndChartVersions(OfficialHarborDisplayName) :
               IF noEntry
               THEN TagReturn(Retry([tagc EXCEPT !.hist = Append(@, "no entry")]))
               ELSE \E b \in TokenAnswers :
                      LET t == [tagc EXCEPT !.fetches = @ + 1]
                      IN IF b.status # StatusOK
                         THEN TagReturn(Retry([t EXCEPT !.hist = Append(@, "no token")]))
                         ELSE TagReturn(Retry([t EXCEPT !.hist = Append(@, "token"),
                                  !.officialHarborBearerToken = b.token,
                                  !.fetched = b.token]))
    /\ UNCHANGED <<repoCR, repoChartCache, repoAsyncTaskMap, env, req, task, btask,
                   errRepoList, wg, collector, lastSet, calc, mu>>

\* the charts of chartList whose name is tagged, in the order of the tagged names
RECURSIVE Tagged(_, _)
Tagged(taggedCharts, chartList) ==
    IF taggedCharts = << >> THEN << >>
    ELSE SelectSeq(chartList, LAMBDA c : c.Metadata.Name = Head(taggedCharts))
            \o Tagged(Tail(taggedCharts), chartList)

\* filterOfficialChartWithTag: the official repository is synced with a nil
\* error channel, then its latest charts are matched with the tagged names
TagFilter ==
    /\ tagc.pc = "filter"
    /\ LET g == getCustomRepoByName(OfficialHarborDisplayName)
       IN IF ~g.found
          THEN /\ TagReturn(TagFailed([tagc EXCEPT !.hist = Append(@, "not found")]))
               /\ UNCHANGED <<repoChartCache, lastSet>>
          ELSE \E o \in RunWorker(NewWorker(g.repository), repoChartCache, {}, NilChan) :
                  LET name == g.repository.DisplayName
                      set == IF o.w.wrote THEN Put(lastSet, name, o.cache[name]) ELSE lastSet
                      selected == filterSelectedRepositories(OfficialHarborDisplayName)
                      got == IF Len(selected) = 0
                             THEN [result |-> << >>, cache |-> o.cache]
                             ELSE getLatestChartsFromRepository(o.cache, selected[1])
                  IN IF o.w.pc # "ret"
                     THEN /\ tagc' = [tagc EXCEPT !.pc = "blocked", !.w = o.w,
                                                  !.hist = Append(@, "sync failed")]
                          /\ repoChartCache' = o.cache
                          /\ lastSet' = set
                          /\ UNCHANGED resp
                     ELSE /\ TagReturn(NextTag([tagc EXCEPT
                                !.hist = Append(@, "synced"),
                                !.outcome = Append(@, "ok"),
                                !.result = Append(@,
                                    [Tag |-> tagc.tags[tagc.k],
                                     ChartVersionResponses |->
                                         Tagged(tagc.taggedCharts, got.result)])]))
                          /\ repoChartCache' = got.cache
                          /\ lastSet' = set
    /\ UNCHANGED <<repoCR, repoAsyncTaskMap, env, req, task, btask, errRepoList, wg,
                   collector, calc, mu>>

(***************************************************************************)
(* SpecTag: GetChartsWithOfficialTags on a catalog that holds the official *)
(* repository, synced before or not                                        *)
(***************************************************************************)
OfficialCatalog ==
    Put(EmptyMap, OfficialHarborDisplayName,
        CR(OfficialHarborDisplayName, OfficialHarborDisplayName, TRUE))

InitTag ==
    /\ repoCR = OfficialCatalog
    /\ env = [m \in DOMAIN repoCR |-> Answers({RespOK(DocA), RespTransport})]
    /\ repoChartCache \in {EmptyMap,
                           Put(EmptyMap, OfficialHarborDisplayName, LoadRepoIndex(RespOK(DocB)).index)}
    /\ lastSet = repoChartCache
    /\ repoAsyncTaskMap = EmptyMap
    /\ req = [i \in Slots |-> IdleReq]
    /\ task = [i \in Slots |-> IdleTask]
    /\ resp = NoResponse
    /\ tagc = IdleTag
    /\ calc = NoCalc
    /\ mu = Unlocked
    /\ NoBatch

TagStep == TagRequest \/ TagToken \/ TagFilter

NextLookup ==
    \/ \E tags \in TagLists : GetChartsWithOfficialTags(tags)
    \/ TagRequest
    \/ TagToken
    \/ TagFilter

SpecTag == InitTag /\ [][NextLookup]_vars

(***************************************************************************)
(* SpecLatest: the queries on one repository that is synced, one sync at a *)
(* time, with indexes of one or two charts                                 *)
(***************************************************************************)
LatestResponses == {RespOK(DocA), RespOK(DocB), RespOK(DocC), RespOK(DocNoEntries)}

InitLatest ==
    /\ repoCR = CatalogOne(NameR)
    /\ env = [m \in DOMAIN repoCR |-> Reliable(LatestResponses)]
    /\ Fresh
    /\ NoBatch

NextLatest ==
    \/ SyncRepoCall(1, NameR)
    \/ SyncRepoStore(1)
    \/ SyncRepoAsync(1)
    \/ SyncRepoComplete(1)
    \/ SyncRepoDrain(1)
    \/ GetLatestCharts(NameR)
    \/ \E c \in {ChartP, ChartQ} : GetChartVersion(NameR, c)

SpecLatest == InitLatest /\ [][NextLatest]_vars

(***************************************************************************)
(* SpecLock: goroutines calling the operations of cachedChart, each call   *)
(* in three steps: take the lock, access the map, release the lock         *)
(***************************************************************************)
MaxGoroutines == 3
Goroutines == 1 .. MaxGoroutines
LockNames == {NameR, NameS}
LockIndexes == {loadIndex(DocA).index, loadIndex(DocB).index}

CacheCall(op, repoName, entries) == [op |-> op, repoName |-> repoName, entries |-> entries]
CacheCalls ==
    {CacheCall("SetChartCache", n, e) : n \in LockNames, e \in LockIndexes}
    \cup {CacheCall(op, n, NilEntries) :
            op \in {"GetChartCacheByRepo", "DeleteChartCache"}, n \in LockNames}
    \cup {CacheCall("GetChartCacheFromAllRepo", << >>, NilEntries)}

\* the operations that take the write lock; every other one takes the read lock
WriteLocked == {"SetChartCache"}
\* the operations that write the map
MapWrites == {"SetChartCache", "DeleteChartCache"}

Inside(g) == Has(mu.op, g)

\* c.Lock(): waits until no goroutine holds the lock
Lock(g, call) ==
    /\ ~mu.fatal /\ ~Inside(g)
    /\ call.op \in WriteLocked
    /\ mu.w = 0 /\ mu.r = {}
    /\ mu' = [mu EXCEPT !.w = g, !.op = Put(@, g, [call |-> call, pc |-> "locked"])]
    /\ UNCHANGED <<repoCR, repoChartCache, repoAsyncTaskMap, env, req, task, btask,
                   errRepoList, wg, collector, resp, lastSet, tagc, calc>>

\* c.RLock(): waits until no goroutine holds the write lock
RLock(g, call) ==
    /\ ~mu.fatal /\ ~Inside(g)
    /\ call.op \notin WriteLocked
    /\ mu.w = 0
    /\ mu' = [mu EXCEPT !.r = @ \cup {g}, !.op = Put(@, g, [call |-> call, pc |-> "locked"])]
    /\ UNCHANGED <<repoCR, repoChartCache, repoAsyncTaskMap, env, req, task, btask,
                   errRepoList, wg, collector, resp, lastSet, tagc, calc>>

\* two goroutines between lock and unlock whose map accesses are not ordered,
\* one of them a write: a data race on the map
Racing(g) ==
    \E h \in DOMAIN mu.op \ {g} :
        /\ mu.op[h].pc = "locked"
        /\ mu.op[g].call.op \in MapWrites \/ mu.op[h].call.op \in MapWrites

\* the map access of the call; in a race the runtime may also stop the
\* process with "concurrent map read and map write" or "concurrent map writes"
CacheBody(g) ==
    /\ ~mu.fatal /\ Inside(g)
    /\ mu.op[g].pc = "locked"
    /\ LET call == mu.op[g].call
       IN \/ /\ mu' = [mu EXCEPT !.op[g].pc = "done"]
             /\ repoChartCache' =
                   CASE call.op = "SetChartCache" ->
                            SetChartCache(repoChartCache, call.repoName, call.entries)
                     [] call.op = "DeleteChartCache" ->
                            DeleteChartCache(repoChartCache, call.repoName)
                     [] OTHER -> repoChartCache
          \/ /\ Racing(g)
             /\ mu' = [mu EXCEPT !.fatal = TRUE]
             /\ UNCHANGED repoChartCache
    /\ UNCHANGED <<repoCR, repoAsyncTaskMap, env, req, task, btask,
                   errRepoList, wg, collector, resp, lastSet, tagc, calc>>

\* the deferred c.Unlock() or c.RUnlock()
Unlock(g) ==
    /\ ~mu.fatal /\ Inside(g)
    /\ mu.op[g].pc = "done"
    /\ mu' = [mu EXCEPT !.w = IF @ = g THEN 0 ELSE @, !.r = @ \ {g}, !.op = Del(@, g)]
    /\ UNCHANGED <<repoCR, repoChartCache, repoAsyncTaskMap, env, req, task, btask,
                   errRepoList, wg, collector, resp, lastSet, tagc, calc>>

InitLock ==
    /\ repoCR = CatalogTwo(NameR)
    /\ env = [m \in DOMAIN repoCR |-> Reliable({RespOK(DocA)})]
    /\ Fresh
    /\ NoBatch

NextLock ==
    \E g \in Goroutines :
        \/ \E call \in CacheCalls : Lock(g, call)
        \/ \E call \in CacheCalls : RLock(g, call)
        \/ CacheBody(g)
        \/ Unlock(g)

SpecLock == InitLock /\ [][NextLock]_vars

(***************************************************************************)
(* pkg/helm/charts.go: UploadChart and DeleteChartVersion on the local     *)
(* repository.  env holds the index the local registry serves; a handler   *)
(* takes a slot for the SyncRepo call it ends with                         *)
(***************************************************************************)
MsgUploadSuccess == "upload success"
MsgUploadFailed == "failed to upload file"
MsgDeleteSuccess == "delete success"
MsgDeleteFailed == "failed to delete file"

Served(doc) == [env EXCEPT ![LocalHarborDisplayName].resps = {RespOK(doc)}]

\* the request to the registry and its answer: the chart is stored (removed)
\* or the handler returns an error
RegistryRequest(i, op, doc, msgFailed) ==
    /\ req[i].pc \in {"idle", "returned"}
    /\ task[i].pc \in {"idle", "done"}
    /\ \E accepted \in BOOLEAN :
          IF accepted
          THEN /\ env' = Served(doc)
               /\ req' = [req EXCEPT ![i] = Req(op, LocalHarborDisplayName, NoCR, 0, 0, MsgNone)]
               /\ UNCHANGED resp
          ELSE /\ resp' = Resp(op, LocalHarborDisplayName, ServerError,
                               StatusInternalServerError, msgFailed, << >>)
               /\ UNCHANGED <<env, req>>
    /\ UNCHANGED <<repoCR, repoChartCache, repoAsyncTaskMap, task, btask, errRepoList, wg,
                   collector, lastSet, tagc, calc, mu>>

\* UploadChart up to the answer of the registry: the uploaded version is served
UploadChart(i) == RegistryRequest(i, "UploadChart", DocA, MsgUploadFailed)

\* DeleteChartVersion up to the answer of the registry
DeleteChartVersion(i) == RegistryRequest(i, "DeleteChartVersion", DocB, MsgDeleteFailed)

\* the call of SyncRepo that ends both handlers, its result being dropped, and
\* the success response; SyncRepoStore goes on when the sync is accepted
RegistrySync(i) ==
    /\ req[i].pc \in {"UploadChart", "DeleteChartVersion"}
    /\ req' = [req EXCEPT ![i] = SyncRepoLoad(LocalHarborDisplayName)]
    /\ resp' = IF req[i].pc = "UploadChart"
               THEN Resp("UploadChart", LocalHarborDisplayName, FileCreated, StatusCreated,
                         MsgUploadSuccess, << >>)
               ELSE Resp("DeleteChartVersion", LocalHarborDisplayName, Success, StatusOK,
                         MsgDeleteSuccess, << >>)
    /\ UNCHANGED <<repoCR, repoChartCache, repoAsyncTaskMap, env, task, btask, errRepoList,
                   wg, collector, lastSet, tagc, calc, mu>>

LocalCatalog ==
    Put(EmptyMap, LocalHarborDisplayName,
        CR(LocalHarborDisplayName, LocalHarborDisplayName, FALSE))

InitUpload ==
    /\ repoCR = LocalCatalog
    /\ env = [m \in DOMAIN repoCR |-> Reliable({RespOK(DocB)})]
    /\ Fresh
    /\ NoBatch

NextUpload ==
    \/ \E i \in Slots : SyncRepoCall(i, LocalHarborDisplayName)
    \/ \E i \in Slots : SyncRepoStore(i)
    \/ \E i \in Slots : SyncRepoAsync(i)
    \/ \E i \in Slots : SyncRepoComplete(i)
    \/ \E i \in Slots : SyncRepoDrain(i)
    \/ \E i \in Slots : UploadChart(i)
    \/ \E i \in Slots : DeleteChartVersion(i)
    \/ \E i \in Slots : RegistrySync(i)

SpecUpload == InitUpload /\ [][NextUpload]_vars

(***************************************************************************)
(* Properties                                                              *)
(***************************************************************************)
Running(i) == task[i].pc \in {"async", "complete", "drain"}

\* C1: of the SyncRepo requests of one repository issued while no sync of it
\* runs, one is accepted and the others are rejected as in progress: at no
\* time do two SyncRepo goroutines of the same repository run together.
C1_OneSyncPerRepository ==
    \A i, j \in Slots :
        (i # j /\ Running(i) /\ Running(j)) => task[i].key # task[j].key

\* C2: when the status of a SyncRepo goroutine has become failed, whatever
\* step failed, the cache entry of its repository is what it was before the
\* goroutine started: the goroutine has not changed it.
C2_FailedSyncKeepsCache ==
    \A i \in Slots :
        task[i].final = syncFailedMsg => ~task[i].w.changed

\* the fetch errors that C3 lists
RECURSIVE Sum(_)
Sum(chunks) == IF chunks = << >> THEN 0 ELSE Head(chunks) + Sum(Tail(chunks))

Defective(r) ==
    \/ r.net
    \/ Sum(r.chunks) > ResponseBodyLimit * 1024 * 1024
    \/ r.status # 200
    \/ ~r.doc.wellFormed
    \/ r.doc.APIVersion = ""

Fetching(i) == task[i].pc = "async" /\ task[i].w.pc = "fetch"

\* C3: when the fetch of the index meets an error (network, a body that
\* passes the byte ceiling, a status other than 200, a malformed document or
\* one without apiVersion), UpdateChartCache returns an error and the cache
\* of every repository is left as it was, in that step and in every later
\* step of the same sync.
C3_FetchErrorKeepsCache ==
    [][\A i \in Slots :
          /\ (Fetching(i) /\ ~Fetching(i)' /\ Defective(task'[i].w.resp)) =>
                /\ task'[i].w.err \notin {NoErr, ErrSecret, ErrPatch}
                /\ task'[i].w.pc = "send"
                /\ repoChartCache' = repoChartCache
          /\ (task[i].pc = "async" /\ Defective(task[i].w.resp) /\ task'[i] # task[i]) =>
                /\ repoChartCache' = repoChartCache
                /\ ~task'[i].w.wrote]_vars

C3_Witness ==
    \E i \in Slots :
        /\ task[i].pc = "done"
        /\ task[i].w.resp = RespTooBig
        /\ task[i].final = syncFailedMsg
        /\ Has(repoChartCache, task[i].w.repository.DisplayName)

\* C4: after an index has been stored under a repository name, reading that
\* name returns exactly that index until the next store or delete of it,
\* whatever queries and whatever stores under other names happen meanwhile.
C4_GetReturnsLastSet ==
    \A k \in DOMAIN lastSet :
        /\ GetChartCacheByRepo(repoChartCache, k).exists
        /\ GetChartCacheByRepo(repoChartCache, k).entries = lastSet[k]

\* C5: in every SyncAllRepos batch, whatever the size of the catalog and the
\* number of failures, every goroutine finishes, the wait-group is passed and
\* the failures are logged: a started batch that has not finished logging can
\* always take a further step.
C5_BatchNeverStops ==
    collector.pc \in {"idle", "done"} \/ ENABLED NextBatch

\* C6: once a SyncAllRepos batch has finished, GetRepoSyncStatus answers
\* complete or failed for the display name of every repository of the catalog.
C6_BatchSetsStatus ==
    collector.pc = "done" =>
        \A m \in DOMAIN repoCR :
            GetRepoSyncStatus(repoCR[m].DisplayName).msg \in {syncCompleteMsg, syncFailedMsg}

Unknown(name) ==
    \A m \in DOMAIN repoCR :
        m # ToLower(name) /\ ToLower(repoCR[m].DisplayName) # ToLower(name)

\* C8: SyncRepo of a name that is not in the catalog returns the not-found
\* client error, starts no goroutine and leaves the status map and the cache
\* unchanged.
C8_UnknownRepoRejected ==
    [][\A i \in Slots :
          (req'[i] # req[i] /\ req[i].pc \in {"idle", "returned"}
             /\ req'[i].name # NameEmpty /\ Unknown(req'[i].name)) =>
                /\ req'[i].pc = "returned"
                /\ req'[i].code = ClientError
                /\ req'[i].msg = MsgRepoNotFound
                /\ task' = task
                /\ repoAsyncTaskMap' = repoAsyncTaskMap
                /\ repoChartCache' = repoChartCache]_vars

C8_Witness ==
    \E i \in Slots :
        /\ req[i].pc = "returned"
        /\ req[i].name = NameX
        /\ req[i].msg = MsgRepoNotFound
        /\ repoChartCache # EmptyMap

\* C9: when DeleteRepo has removed a repository from the catalog, the cache
\* has no entry under the display name of that repository, whatever its
\* letter case.
C9_DeleteRemovesCacheEntry ==
    [][\A m \in DOMAIN repoCR :
          m \notin DOMAIN repoCR' =>
              ~GetChartCacheByRepo(repoChartCache', repoCR[m].DisplayName).exists]_vars

Catalogued(name) == \E m \in DOMAIN repoCR : repoCR[m].DisplayName = name

\* C10: a query (GetLatestCharts, GetChartVersion) on a catalogued repository
\* that has no cache entry answers with the not-found error "please sync your
\* repository", never with a successful result.
C10_UnsyncedRepoAsksForSync ==
    [][(resp' # resp /\ resp'.op \in {"GetLatestCharts", "GetChartVersion"}
          /\ Catalogued(resp'.name)
          /\ ~GetChartCacheByRepo(repoChartCache, resp'.name).exists) =>
             /\ resp'.code = ResourceNotFound
             /\ resp'.msg = MsgPleaseSync]_vars

\* C13: sorting the names "a1", "A2", "-x", "9" by name, ascending, gives
\* "-x", "a1", "A2", "9": the lower-case name before the upper-case one.
C13_ExampleOrder ==
    (calc.op = "sortChartByName" /\ calc.in.ascending
       /\ NamesOf(calc.in.chartList) = << NameA1, NameA2Upper, NameDashX, Name9 >>) =>
          NamesOf(calc.out) = << NameDashX, NameA1, NameA2Upper, Name9 >>

Paged == calc.op = "pageResult" /\ ~calc.in.limit.err /\ calc.in.limit.n > 0
PagedTotal == Len(calc.in.result)
PagedLimit == calc.in.limit.n
PagedPage == IF calc.in.page.err THEN 1 ELSE calc.in.page.n

\* C14: for a limit L > 0 and a page P >= 1 with (P-1)*L < total, the page
\* holds the items at positions (P-1)*L+1 .. min(P*L, total), in order, and
\* totalItems is total.
C14_PageWindow ==
    (Paged /\ PagedPage >= 1 /\ (PagedPage - 1) * PagedLimit < PagedTotal) =>
        LET first == (PagedPage - 1) * PagedLimit + 1
            last == IF PagedPage * PagedLimit < PagedTotal
                    THEN PagedPage * PagedLimit ELSE PagedTotal
        IN /\ calc.out.Items = [k \in 1 .. (last - first + 1) |-> calc.in.result[first + k - 1]]
           /\ calc.out.TotalItems = PagedTotal

C14_Witness ==
    /\ Paged
    /\ PagedTotal = 25 /\ PagedLimit = 10 /\ PagedPage = 3
    /\ calc.out.Items = << 21, 22, 23, 24, 25 >>

\* C15: for a limit L > 0 and total > 0, a page whose offset (P-1)*L is at
\* or past the end (offset >= total) is answered with the first page, the
\* items 1 .. min(L, total): never with an empty page.
C15_OutOfRangeGivesFirstPage ==
    (Paged /\ PagedTotal > 0 /\ (PagedPage - 1) * PagedLimit >= PagedTotal) =>
        calc.out.Items = SubSeq(calc.in.result, 1, Min(PagedLimit, PagedTotal))

\* C16: when the limit is the no-limit sentinel (absent or -1), whatever
\* page was requested, the response holds all items with currentPage 1 and
\* totalPages 1.
C16_NoLimitIsPageOneOfOne ==
    (calc.op = "pageResult" /\ (calc.in.limit.err \/ calc.in.limit.n = noPaginationLimit)) =>
        /\ calc.out.Items = calc.in.result
        /\ calc.out.CurrentPage = 1
        /\ calc.out.TotalPages = 1

\* C11: one tag lookup requests the tag endpoint at most maxRetries times and
\* always ends (a lookup that has begun can take a further step until the
\* handler returns); when its first request is answered 401 with a challenge,
\* the token is fetched and the second request succeeds, one token fetch and
\* two tag requests were made and the stored bearer token is the fetched one.
C11_TagLookupEnds ==
    /\ tagc.requests <= maxRetries
    /\ tagc.pc \notin {"idle", "returned"} => ENABLED TagStep
    /\ tagc.hist = << "401 challenge", "token", "200" >> =>
          /\ tagc.fetches = 1
          /\ tagc.requests = 2
          /\ tagc.officialHarborBearerToken = tagc.fetched

\* the tags of the request whose lookup had the given outcome, in request order
TagsWith(outcome) ==
    LET idx == SelectSeq([k \in DOMAIN tagc.tags |-> k],
                         LAMBDA k : k <= Len(tagc.outcome) /\ tagc.outcome[k] = outcome)
    IN [k \in DOMAIN idx |-> tagc.tags[idx[k]]]

\* C12: when GetChartsWithOfficialTags returns, the tags whose lookup failed
\* have no entry in the result, the tags whose lookup succeeded have their
\* entries in request order, and the response is a success.
C12_FailedTagSkipped ==
    (tagc.pc = "returned" /\ tagc.outcome # << "config" >>) =>
        /\ resp.op = "GetChartsWithOfficialTags"
        /\ resp.code = Success
        /\ Len(tagc.outcome) = Len(tagc.tags)
        /\ [k \in DOMAIN resp.data |-> resp.data[k].Tag] = TagsWith("ok")

C12_Witness ==
    /\ tagc.pc = "returned"
    /\ tagc.tags = << "t1", "t2" >>
    /\ tagc.outcome = << "failed", "ok" >>
    /\ Len(resp.data) = 1
    /\ resp.data[1].Tag = "t2"
    /\ Len(resp.data[1].ChartVersionResponses) = 1

Answered(op) == resp' # resp /\ resp'.op = op

MaxCreated(chartVersions) ==
    CHOOSE t \in {chartVersions[k].Created : k \in DOMAIN chartVersions} :
        \A k \in DOMAIN chartVersions : chartVersions[k].Created <= t

\* C17: for a cached index, GetLatestCharts emits exactly one record per
\* package that has a version, and that record is a version of the package
\* with the greatest creation time whose keywords are the union of the
\* keywords of all versions; a package without versions emits nothing.
C17_LatestPerPackage ==
    [][(Answered("GetLatestCharts") /\ Catalogued(resp'.name)
          /\ GetChartCacheByRepo(repoChartCache, resp'.name).exists) =>
             LET pkgs == GetChartCacheByRepo(repoChartCache, resp'.name).entries.pkgs
                 data == resp'.data
                 full == {c \in DOMAIN pkgs : Len(pkgs[c]) > 0}
             IN /\ Len(data) = Cardinality(full)
                /\ \A c \in full :
                      \E k \in DOMAIN data :
                          /\ data[k].Metadata.Name = c
                          /\ data[k].Metadata.Created = MaxCreated(pkgs[c])
                          /\ \E v \in DOMAIN pkgs[c] :
                                /\ pkgs[c][v].Version = data[k].Metadata.Version
                                /\ pkgs[c][v].Created = data[k].Metadata.Created
                          /\ data[k].Metadata.Keywords =
                                UNION {pkgs[c][v].Keywords : v \in DOMAIN pkgs[c]}]_vars

C17_Witness ==
    /\ resp.op = "GetLatestCharts"
    /\ Has(repoChartCache, NameR)
    /\ Has(repoChartCache[NameR].pkgs, ChartQ)
    /\ Len(resp.data) = 1
    /\ resp.data[1].Metadata.Keywords = {"a", "b"}
    /\ resp.data[1].Metadata.Created = 2

\* C19: the queries leave the cache unchanged: no query changes the order
\* of the version records of a package or the keywords of a version record.
C19_QueriesKeepCache ==
    [][(Answered("GetLatestCharts") \/ Answered("GetChartVersion")) =>
          repoChartCache' = repoChartCache]_vars

\* C18: no goroutine is between lock and unlock of a cache mutation (set or
\* delete) while another goroutine is between lock and unlock of any cache
\* operation.
C18_MutationExcludesAll ==
    \A g \in DOMAIN mu.op :
        mu.op[g].call.op \in MapWrites => DOMAIN mu.op = {g}

\* C20: while the goroutine of a SyncRepo whose update failed has not yet
\* stored the failed status, the status of the repository is in_progress:
\* GetRepoSyncStatus does not answer complete and a new SyncRepo of the
\* repository is not accepted.
C20_FailedSyncStaysInProgress ==
    \A i \in Slots :
        (Running(i) /\ task[i].buf # {}) =>
            /\ GetRepoSyncStatus(task[i].key).msg = syncInProgressMsg
            /\ SyncRepoLoad(task[i].key).pc = "returned"

\* C21: when a SyncRepo goroutine has finished and its repository, whose
\* display name is in lower case, is no longer in the catalog, the cache has
\* no entry for that repository.
C21_DeletedRepoHasNoEntry ==
    \A i \in Slots :
        (task[i].pc = "done"
           /\ task[i].w.repository.DisplayName = ToLower(task[i].w.repository.DisplayName)
           /\ ~Catalogued(task[i].w.repository.DisplayName)) =>
              ~GetChartCacheByRepo(repoChartCache, task[i].w.repository.DisplayName).exists

\* what the history of a tag lookup records for an answered tag request
Answers401 == {"401", "401 challenge"}
AnsweredRequests == {"200", "undecodable", "not 200"} \cup Answers401

Compared == calc.op = "customCompare"

\* C23: in both directions customCompare(a, a) is false, for different names
\* exactly one of customCompare(a, b) and customCompare(b, a) is true, and
\* customCompare(a, b, descending) = customCompare(b, a, ascending), also for
\* equal names.
C23_StrictTotalOrder ==
    Compared =>
        /\ calc.in.a = calc.in.b => ~calc.out
        /\ calc.in.a # calc.in.b =>
              calc.out # customCompare(calc.in.b, calc.in.a, calc.in.sortOrder)
        /\ calc.in.sortOrder = descendingOrder =>
              calc.out = customCompare(calc.in.b, calc.in.a, ascendingOrder)

\* the key of a character: its priority class, its lower-case form, its code point
Key(r) == << getPriority(r), ToLowerRune(r), r >>
KeyLess(k, l) ==
    \/ k[1] < l[1]
    \/ k[1] = l[1] /\ k[2] < l[2]
    \/ k[1] = l[1] /\ k[2] = l[2] /\ k[3] < l[3]
Differ(a, b) == {i \in DOMAIN a \cap DOMAIN b : a[i] # b[i]}
FirstDiffer(a, b) == CHOOSE i \in Differ(a, b) : \A j \in Differ(a, b) : i <= j

\* C24: customCompare(a, b, ascending) is true exactly when the character of
\* a has the smaller key at the first position where a and b differ, or, when
\* they differ nowhere, a is shorter than b.
C24_AscendingIsKeyOrder ==
    (Compared /\ calc.in.sortOrder = ascendingOrder) =>
        LET a == calc.in.a
            b == calc.in.b
        IN calc.out =
              IF Differ(a, b) # {}
              THEN KeyLess(Key(a[FirstDiffer(a, b)]), Key(b[FirstDiffer(a, b)]))
              ELSE Len(a) < Len(b)

\* "abc" against "Abc", ascending: false, the upper-case name sorts first
C24_Witness ==
    /\ Compared /\ calc.in.sortOrder = ascendingOrder
    /\ calc.in.a = NameAbc /\ calc.in.b = NameAbcUpper
    /\ calc.out = FALSE

\* C25: for a limit L > 0, a page P >= 1 and every total >= 0, total = 0
\* included, totalPages is the ceiling of total / L.
C25_TotalPagesIsCeiling ==
    (Paged /\ PagedPage >= 1) =>
        calc.out.TotalPages = (PagedTotal + PagedLimit - 1) \div PagedLimit

Filtered == calc.op = "filterChartVersionSlice"

PassName(c, p) ==
    p.Chart = << >> \/ stringsContains(ToLower(c.Metadata.Name), ToLower(p.Chart))
PassScene(c, p) ==
    p.Scene = << >> \/ \E k \in DOMAIN p.Scene : p.Scene[k] \in c.Metadata.Keywords
\* a requested category is the application marker and the chart is no
\* extension, or a requested category is a keyword of the chart
PassCategory(c, p) ==
    p.Types = << >>
    \/ \E k \in DOMAIN p.Types :
          \/ p.Types[k] = ApplicationType /\ FuyaoExtensionKeyword \notin c.Metadata.Keywords
          \/ p.Types[k] \in c.Metadata.Keywords
\* the same, the application marker and the empty category never being
\* looked up among the keywords
PassCategoryReserved(c, p) ==
    p.Types = << >>
    \/ \E k \in DOMAIN p.Types :
          \/ p.Types[k] = ApplicationType /\ FuyaoExtensionKeyword \notin c.Metadata.Keywords
          \/ /\ p.Types[k] \notin {ApplicationType, ""}
             /\ p.Types[k] \in c.Metadata.Keywords

\* C26: the filter returns exactly the input charts, in input order, that
\* pass the name stage, the category stage and the scene stage, a stage with
\* an empty input passing every chart.
C26_FilterStages ==
    Filtered =>
        calc.out = SelectSeq(calc.in.chartList, LAMBDA c :
                       /\ PassName(c, calc.in.searchParam)
                       /\ PassCategory(c, calc.in.searchParam)
                       /\ PassScene(c, calc.in.searchParam))

\* C26, amended: as C26, but in the category stage the application marker
\* and the empty category are never matched against the keywords of a chart:
\* they pass a chart only through the application rule.
C26_FilterStagesReserved ==
    Filtered =>
        calc.out = SelectSeq(calc.in.chartList, LAMBDA c :
                       /\ PassName(c, calc.in.searchParam)
                       /\ PassCategoryReserved(c, calc.in.searchParam)
                       /\ PassScene(c, calc.in.searchParam))

\* an extension chart that carries the keyword "application" is dropped, an
\* extension chart with a requested keyword is kept
C26_Witness ==
    /\ Filtered
    /\ calc.in.searchParam.Types = << ApplicationType, "db" >>
    /\ Len(calc.in.chartList) = 2
    /\ calc.in.chartList[1].Metadata.Keywords = {FuyaoExtensionKeyword, ApplicationType}
    /\ calc.in.chartList[2].Metadata.Keywords = {FuyaoExtensionKeyword, "db"}
    /\ calc.out = << calc.in.chartList[2] >>

C27_CachedIndexNotNil ==
    \A k \in DOMAIN repoChartCache : ~repoChartCache[k].isNil

\* C28: for a repository other than the official one, a TLS configuration
\* that accepts a server without verifying its certificate is built only
\* when skip-verify was requested.
C28_UnverifiedOnlyOnRequest ==
    (calc.op = "GetHarborHTTPConfig" /\ calc.in.Name # OfficialHarborDisplayName
       /\ ~calc.out.err /\ calc.out.config.InsecureSkipVerify) =>
          calc.in.InsecureSkipTLSverify

\* C29: when the sync of the official repository inside the lookup of a tag
\* has failed, the lookup goes on: the handler can take a further step.
C29_FailedResyncGoesOn ==
    (tagc.hist # << >> /\ tagc.hist[Len(tagc.hist)] = "sync failed") => ENABLED TagStep

Quiet == \A i \in Slots : req[i].pc \in {"idle", "returned"} /\ task[i].pc \in {"idle", "done"}

\* C30: after a successful UploadChart or DeleteChartVersion, once every
\* handler has returned and every sync goroutine has ended, the cache entry
\* of the local repository is the index the registry serves since then.
C30_LocalCacheFollowsRegistry ==
    (resp.op \in {"UploadChart", "DeleteChartVersion"} /\ resp.code \in {FileCreated, Success}
       /\ Quiet) =>
          \A r \in env[LocalHarborDisplayName].resps :
              /\ GetChartCacheByRepo(repoChartCache, LocalHarborDisplayName).exists
              /\ GetChartCacheByRepo(repoChartCache, LocalHarborDisplayName).entries
                    = LoadRepoIndex(r).index

====
